---------------------------- MODULE Spec2Model ----------------------------
(***************************************************************************)
(* Changelog synchronization scripts of .github/scripts:                   *)
(*   update_changelog.py   (single-record mode, historical rebuild)        *)
(*   populate_changelog.py (bulk backfill)                                 *)
(*                                                                         *)
(* Text is a sequence of tokens.  A token is a piece of text that the      *)
(* regular expressions of the scripts never look inside: a heading         *)
(* literal, a word, a number, one punctuation character, one newline.      *)
(* Concatenation of text is \o and a slice is SubSeq.                      *)
(***************************************************************************)
EXTENDS Integers, Sequences, FiniteSets, TLC

(***************************************************************************)
(* Bounds of the model.                                                    *)
(***************************************************************************)
MaxId == 2
MaxFetch == 2

Ids == 1..MaxId

(***************************************************************************)
(* Tokens.                                                                 *)
(***************************************************************************)
NL == "\n"
SP == " "
UNRELEASED == "## [Unreleased]"
VERSION == "## [1.0.0]"
PLAINVERSION == "## 1.0.0"
TITLE == "# Changelog"
BULLET == "- "
H3 == "### "

\* the decimal text of a number and of its reference link
DigitStr == <<"1", "2", "3", "4", "5">>
UrlStr == <<"https://github.com/o/r/pull/1", "https://github.com/o/r/pull/2",
            "https://github.com/o/r/pull/3", "https://github.com/o/r/pull/4",
            "https://github.com/o/r/pull/5">>

\* str(n)
ToStr(n) == DigitStr[n]

\* \d+ : the tokens that are a run of digits
IsDigits(tok) == \E n \in 1..Len(DigitStr) : DigitStr[n] = tok

\* int(s)
ToInt(s) == CHOOSE n \in 1..Len(DigitStr) : DigitStr[n] = s

\* the tokens whose text begins with "## ["
StartsH2Bracket(tok) == tok \in {UNRELEASED, VERSION}

\* the tokens whose text begins with "#" (the pattern #+\s* matches there)
StartsHash(tok) ==
    tok \in {UNRELEASED, VERSION, PLAINVERSION, TITLE, H3, "#", "## Changelog",
             "## Notes"}

\* \s
IsSpace(tok) == tok \in {NL, SP}

(***************************************************************************)
(* Sequence helpers.                                                       *)
(***************************************************************************)
\* smallest element of a non-empty set of numbers, 0 for the empty set
MinOr0(S) == IF S = {} THEN 0 ELSE CHOOSE m \in S : \A k \in S : m <= k

\* s[from:] in 1-based positions
From(s, k) == SubSeq(s, k, Len(s))

\* s[:k] exclusive of position k
Upto(s, k) == SubSeq(s, 1, k - 1)

\* sub occurs in s as a contiguous block
Occurs(sub, s) ==
    \E k \in 0..(Len(s) - Len(sub)) : SubSeq(s, k + 1, k + Len(sub)) = sub

\* str.strip()
RECURSIVE LStrip(_)
LStrip(s) == IF s # <<>> /\ IsSpace(Head(s)) THEN LStrip(Tail(s)) ELSE s

RECURSIVE RStrip(_)
RStrip(s) ==
    IF s # <<>> /\ IsSpace(s[Len(s)]) THEN RStrip(SubSeq(s, 1, Len(s) - 1)) ELSE s

Strip(s) == RStrip(LStrip(s))

\* concatenation of a sequence of texts
RECURSIVE Concat(_)
Concat(ss) == IF ss = <<>> THEN <<>> ELSE Head(ss) \o Concat(Tail(ss))

(***************************************************************************)
(* Categories and the label/keyword table.                                 *)
(***************************************************************************)
category_order == <<"Added", "Changed", "Deprecated", "Removed", "Fixed", "Security">>

Categories == {category_order[i] : i \in 1..Len(category_order)}

\* keys of CATEGORY_MAPPING in insertion order
MappingKeys ==
    <<"feature", "enhancement", "added", "add", "new", "bug", "bugfix", "fix",
      "fixed", "breaking", "breaking-change", "changed", "change", "deprecated",
      "removed", "security">>

CATEGORY_MAPPING(key) ==
    CASE key \in {"feature", "enhancement", "added", "add", "new"} -> "Added"
      [] key \in {"bug", "bugfix", "fix", "fixed"} -> "Fixed"
      [] key \in {"breaking", "breaking-change", "changed", "change"} -> "Changed"
      [] key = "deprecated" -> "Deprecated"
      [] key = "removed" -> "Removed"
      [] key = "security" -> "Security"

InMapping(key) == \E i \in 1..Len(MappingKeys) : MappingKeys[i] = key

\* the table keys that are substrings of the lower-cased text of one token
KeywordsIn(tok) ==
    CASE tok = "add" -> {"add"}
      [] tok = "fix: " -> {"fix"}
      [] tok = "Fixed" -> {"fix", "fixed"}
      [] tok = "renew" -> {"new"}
      [] tok = "## Changelog" -> {"change"}
      [] tok = "Security" -> {"security"}
      [] OTHER -> {}

\* keyword in combined
KeywordIn(keyword, combined) ==
    \E i \in 1..Len(combined) : keyword \in KeywordsIn(combined[i])

categorize_change_KeywordsFirst(pr_title, pr_body, labels) ==
    LET labelHits == {i \in 1..Len(labels) : InMapping(labels[i])}
        combined == pr_title \o <<SP>> \o pr_body
        found == UNION {KeywordsIn(combined[i]) : i \in 1..Len(combined)}
        keyHits == {i \in 1..Len(MappingKeys) : MappingKeys[i] \in found}
    IN  IF keyHits # {} THEN CATEGORY_MAPPING(MappingKeys[MinOr0(keyHits)])
        ELSE IF labelHits # {} THEN CATEGORY_MAPPING(labels[MinOr0(labelHits)])
        ELSE "Changed"

\* labels first, in the order of the list; then the keys of the table, in its
\* order, that occur in the lower-cased "title body"
categorize_change(pr_title, pr_body, labels) ==
    LET labelHits == {i \in 1..Len(labels) : InMapping(labels[i])}
        combined == pr_title \o <<SP>> \o pr_body
        found == UNION {KeywordsIn(combined[i]) : i \in 1..Len(combined)}
        keyHits == {i \in 1..Len(MappingKeys) : MappingKeys[i] \in found}
    IN  IF labelHits # {} THEN CATEGORY_MAPPING(labels[MinOr0(labelHits)])
        ELSE IF keyHits # {} THEN CATEGORY_MAPPING(MappingKeys[MinOr0(keyHits)])
        ELSE "Changed"

(***************************************************************************)
(* Entry renderer.                                                         *)
(***************************************************************************)
\* the tokens "#+\s*changelog" matches, case-insensitively
IsChangelogHeading(tok) == tok = "## Changelog"

\* end of the maximal run of white space that starts at position k
RECURSIVE SpaceRunEnd(_, _)
SpaceRunEnd(s, k) ==
    IF k <= Len(s) /\ IsSpace(s[k]) THEN SpaceRunEnd(s, k + 1) ELSE k - 1

\* position of the newline that "[:\s]*\n" ends on after the heading at k, or 0
HeadingNewline(s, k) ==
    LET e == SpaceRunEnd(s, k + 1)
        nls == {j \in (k + 1)..e : s[j] = NL}
    IN  IF nls = {} THEN 0 ELSE CHOOSE j \in nls : \A i \in nls : i <= j

\* group(1) of  #+\s*changelog[:\s]*\n(.*?)(?:\n#+\s*|$)  with IGNORECASE|DOTALL,
\* as [found, content]
changelog_match(pr_body) ==
    LET starts == {k \in 1..Len(pr_body) :
                      IsChangelogHeading(pr_body[k]) /\ HeadingNewline(pr_body, k) # 0}
        k0 == MinOr0(starts)
        g == HeadingNewline(pr_body, k0) + 1
        n == Len(pr_body)
        \* positions p >= g where the lazy group may stop: before a newline that a
        \* heading follows, at the end of the text, or before a final newline
        stops == {p \in g..(n + 1) :
                     \/ p = n + 1
                     \/ p = n /\ pr_body[n] = NL
                     \/ p < n /\ pr_body[p] = NL /\ StartsHash(pr_body[p + 1])}
    IN  IF k0 = 0 THEN [found |-> FALSE, content |-> <<>>]
        ELSE [found |-> TRUE, content |-> SubSeq(pr_body, g, MinOr0(stops) - 1)]

\* the conventional commit prefixes "feat:", "fix:", ... with the white space after
IsCommitPrefix(tok) == tok \in {"feat: ", "fix: ", "docs: ", "chore: "}

\* a leading "**...**"
IsBold(tok) == tok \in {"**WIP**"}

\* re.sub(r"^(feat|fix|...):\s*", "", title)
StripCommitPrefix(title) ==
    IF title # <<>> /\ IsCommitPrefix(Head(title)) THEN LStrip(Tail(title)) ELSE title

\* re.sub(r"^\*\*.*?\*\*\s*", "", title)
StripBold(title) ==
    IF title # <<>> /\ IsBold(Head(title)) THEN LStrip(Tail(title)) ELSE title

\* " ([#<id>](<url>))"
LinkSuffix(pr_number, pr_url) ==
    <<SP, "(", "[", "#", pr_number, "]", "(", pr_url, ")", ")">>

extract_changelog_entry(pr_title, pr_body, pr_number, pr_url) ==
    LET m == changelog_match(pr_body)
        content == Strip(m.content)
        title == Strip(StripBold(StripCommitPrefix(Strip(pr_title))))
    IN  IF pr_body # <<>> /\ m.found /\ content # <<>>
        THEN content \o LinkSuffix(pr_number, pr_url)
        ELSE IF title # <<>>
        THEN title \o LinkSuffix(pr_number, pr_url)
        ELSE <<"PR ", "#", pr_number, SP, "(", pr_url, ")">>

(***************************************************************************)
(* Document model.                                                         *)
(***************************************************************************)
\* re.search(r"(## \[Unreleased\])", content): position of the first marker, or 0
unreleased_match(content) ==
    MinOr0({k \in 1..Len(content) : content[k] = UNRELEASED})

\* "## [Unreleased]" in content
HasMarker(content) == unreleased_match(content) # 0

\* re.search(r"\n## \[", rest): position in rest of the newline that a "## ["
\* line follows, or 0
next_version(rest) ==
    MinOr0({k \in 1..(Len(rest) - 1) : rest[k] = NL /\ StartsH2Bracket(rest[k + 1])})

\* set(re.findall(r"\(#(\d+)\)", text))
FindPrNumbers(text) ==
    {text[k + 2] : k \in {j \in 1..(Len(text) - 3) :
                            /\ text[j] = "("
                            /\ text[j + 1] = "#"
                            /\ IsDigits(text[j + 2])
                            /\ text[j + 3] = ")"}}

\* the three slices parse_changelog cuts the text into, and the numbers found
SplitChangelog(content) ==
    LET m == unreleased_match(content)
        rest == From(content, m + 1)
        nv == next_version(rest)
        unreleased_content == IF nv # 0 THEN Upto(rest, nv) ELSE rest
        after == IF nv # 0 THEN From(rest, nv) ELSE <<>>
    IN  IF m = 0
        THEN [before |-> content, unreleased_content |-> <<>>, after |-> <<>>,
              pr_numbers |-> {}]
        ELSE [before |-> Upto(content, m), unreleased_content |-> unreleased_content,
              after |-> after, pr_numbers |-> FindPrNumbers(unreleased_content)]

parse_changelog(file_exists, content) ==
    IF ~file_exists
    THEN [before |-> <<>>, pr_numbers |-> {}, after |-> <<>>]
    ELSE LET s == SplitChangelog(content)
         IN  [before |-> s.before, pr_numbers |-> s.pr_numbers, after |-> s.after]

\* one "- <entry>\n" line per entry
RECURSIVE BulletLines(_)
BulletLines(entries) ==
    IF entries = <<>> THEN <<>>
    ELSE <<BULLET>> \o Head(entries) \o <<NL>> \o BulletLines(Tail(entries))

format_changelog_section(category, entries) ==
    IF entries = <<>> THEN <<>>
    ELSE <<NL, H3, category, NL>> \o BulletLines(entries)

\* "## [Unreleased]\n" followed by the non-empty categories in category_order
RenderUnreleased(entries_by_category) ==
    <<UNRELEASED, NL>> \o
    Concat([i \in 1..Len(category_order) |->
              format_changelog_section(category_order[i],
                                       entries_by_category[category_order[i]])])

NoEntries == [c \in Categories |-> <<>>]

AppendEntry_AtFront(entries_by_category, category, entry) ==
    [entries_by_category EXCEPT ![category] = <<entry>> \o @]

\* entries_by_category[category].append(entry), creating the list when absent
AppendEntry(entries_by_category, category, entry) ==
    [entries_by_category EXCEPT ![category] = Append(@, entry)]

\* entries_by_category[category].insert(0, entry), creating the list when absent
InsertEntry(entries_by_category, category, entry) ==
    [entries_by_category EXCEPT ![category] = <<entry>> \o @]

RECURSIVE GroupEntries(_, _)
GroupEntries(prs, entries_by_category) ==
    IF prs = <<>> THEN entries_by_category
    ELSE LET pr == Head(prs)
             category == categorize_change(pr.title, pr.body, pr.labels)
             entry == extract_changelog_entry(pr.title, pr.body, ToStr(pr.number),
                                              pr.html_url)
         IN  GroupEntries(Tail(prs), AppendEntry(entries_by_category, category, entry))

build_changelog_content(prs) == RenderUnreleased(GroupEntries(prs, NoEntries))

(***************************************************************************)
(* Single-record mode.                                                     *)
(***************************************************************************)
\* text.split("## [Unreleased]")[0]
SplitFirst(text) ==
    LET m == unreleased_match(text) IN IF m = 0 THEN text ELSE Upto(text, m)

\* text.split("## [Unreleased]")[1], for a text that holds the marker
SplitSecond(text) == SplitFirst(From(text, unreleased_match(text) + 1))

\* position of the first newline at or after k, or 0
NewlineFrom(s, k) == MinOr0({j \in k..Len(s) : s[j] = NL})

\* the lines "(?:- .*\n)*" matches from position k on, each without its newline
RECURSIVE BulletBlock(_, _)
BulletBlock(s, k) ==
    IF k <= Len(s) /\ s[k] = BULLET /\ NewlineFrom(s, k + 1) # 0
    THEN <<SubSeq(s, k, NewlineFrom(s, k + 1) - 1)>>
         \o BulletBlock(s, NewlineFrom(s, k + 1) + 1)
    ELSE <<>>

\* the entries under "### <cat>\n" in unreleased_content, each line stripped
\* and cut by its first two characters; <<>> when the heading is not there
ExistingEntries(cat, unreleased_content) ==
    LET s == unreleased_content
        k == MinOr0({j \in 1..(Len(s) - 2) :
                        s[j] = H3 /\ s[j + 1] = cat /\ s[j + 2] = NL})
        lines == BulletBlock(s, k + 3)
    IN  IF k = 0 THEN <<>>
        ELSE [i \in 1..Len(lines) |-> Tail(Strip(lines[i]))]

\* the check without int(): a str is never equal to one of the ints
AlreadyInChangelog_StrVsInt(pr_number, existing_prs) ==
    pr_number \in {e \in existing_prs : FALSE}

\* int(pr_number) in map(int, existing_prs)
AlreadyInChangelog(pr_number, existing_prs) ==
    ToInt(pr_number) \in {ToInt(e) : e \in existing_prs}

update_changelog_single_pr(file_exists, content, pr_number, pr_title, pr_body, pr_url, labels) ==
    LET p == parse_changelog(file_exists, content)
        category == categorize_change(pr_title, pr_body, labels)
        entry == extract_changelog_entry(pr_title, pr_body, pr_number, pr_url)
        inBefore == p.before # <<>> /\ p.after # <<>> /\ HasMarker(p.before)
        unreleased_content == IF inBefore THEN SplitSecond(p.before) ELSE <<>>
        full_before == IF inBefore THEN SplitFirst(p.before) ELSE p.before
        entries_by_category ==
            InsertEntry([c \in Categories |-> ExistingEntries(c, unreleased_content)],
                        category, entry)
        unreleased_section == RenderUnreleased(entries_by_category)
    IN  IF AlreadyInChangelog(pr_number, p.pr_numbers)
        THEN [file_exists |-> file_exists, content |-> content, ret |-> "False",
              writes |-> 0]
        ELSE [file_exists |-> TRUE,
              content |-> full_before \o unreleased_section \o p.after,
              ret |-> "True", writes |-> 1]

(***************************************************************************)
(* Bulk modes.                                                             *)
(***************************************************************************)
\* the check "if not prs" left out
NoPrs_Never(prs) == FALSE

\* not prs
NoPrs(prs) == prs = <<>>

\* [pr for pr in prs if pr["number"] not in existing_pr_set]
FilterNew(prs, existing_prs) ==
    LET existing_pr_set == {ToInt(e) : e \in existing_prs}
        new(pr) == pr.number \notin existing_pr_set
    IN  SelectSeq(prs, new)

\* re.sub(r"## \[Unreleased\].*?(?=\n## \[|\Z)", repl, content, flags=re.DOTALL)
RECURSIVE ReSubUnreleased(_, _)
ReSubUnreleased(content, repl) ==
    LET m == unreleased_match(content)
        rest == From(content, m + 1)
        nv == next_version(rest)
    IN  IF m = 0 THEN content
        ELSE IF nv = 0 THEN Upto(content, m) \o repl
        ELSE Upto(content, m) \o repl \o ReSubUnreleased(From(rest, nv), repl)

\* content.find("# Changelog"), 0 when not found
FindTitle(content) == MinOr0({k \in 1..Len(content) : content[k] = TITLE})

build_full_changelog_from_history(file_exists, content, prs) ==
    LET p == parse_changelog(file_exists, content)
        new_prs == FilterNew(prs, p.pr_numbers)
        new_unreleased == build_changelog_content(new_prs)
        changelog_start == FindTitle(content)
        new_content ==
            IF ~file_exists THEN new_unreleased
            ELSE IF HasMarker(content) THEN ReSubUnreleased(content, new_unreleased)
            ELSE IF changelog_start # 0
            THEN Upto(content, changelog_start) \o new_unreleased \o <<NL, NL>>
                 \o From(content, changelog_start)
            ELSE new_unreleased \o <<NL, NL>> \o content
    IN  IF NoPrs(prs)
        THEN [file_exists |-> file_exists, content |-> content, ret |-> "None",
              writes |-> 0, new_prs |-> <<>>]
        ELSE [file_exists |-> TRUE, content |-> new_content, ret |-> "None",
              writes |-> 1, new_prs |-> new_prs]

\* the text populate_changelog starts from when there is no file
DefaultContent ==
    <<TITLE, NL, NL, "All notable changes documented here.", NL, NL>>

\* re.search(r"(# Changelog\n)", content): position of the newline, 0 when not found
TitleLineEnd(content) ==
    LET k == MinOr0({j \in 1..(Len(content) - 1) :
                        content[j] = TITLE /\ content[j + 1] = NL})
    IN  IF k = 0 THEN 0 ELSE k + 1

populate_changelog(file_exists, content, prs) ==
    LET p == parse_changelog(file_exists, content)
        new_prs == FilterNew(prs, p.pr_numbers)
        new_unreleased == build_changelog_content(new_prs)
        text == IF file_exists THEN content ELSE DefaultContent
        m == unreleased_match(text)
        rest == From(text, m + 1)
        nv == next_version(rest)
        insert_pos == TitleLineEnd(text)
        new_content ==
            IF HasMarker(text)
            THEN Upto(text, m) \o new_unreleased \o <<NL>>
                 \o (IF nv = 0 THEN <<>> ELSE From(rest, nv))
            ELSE IF insert_pos # 0
            THEN SubSeq(text, 1, insert_pos) \o <<NL>> \o new_unreleased \o <<NL>>
                 \o From(text, insert_pos + 1)
            ELSE new_unreleased \o <<NL, NL>> \o text
    IN  IF NoPrs(prs) \/ NoPrs(new_prs)
        THEN [file_exists |-> file_exists, content |-> content, ret |-> "False",
              writes |-> 0, new_prs |-> <<>>]
        ELSE [file_exists |-> TRUE, content |-> new_content, ret |-> "True",
              writes |-> 1, new_prs |-> new_prs]

(***************************************************************************)
(* Record source.                                                          *)
(***************************************************************************)
\* the remote URL matches
\*   ^(git@github\.com:[^/]+/.+?\.git|https://github\.com/[^/]+/.+?(/|\.git)?)$
TrustedRemote(remote_url) ==
    \/ /\ Len(remote_url) >= 5
       /\ remote_url[1] = "git@github.com:"
       /\ remote_url[2] # "/"
       /\ remote_url[3] = "/"
       /\ remote_url[Len(remote_url)] = ".git"
    \/ /\ Len(remote_url) >= 4
       /\ remote_url[1] = "https://github.com/"
       /\ remote_url[2] # "/"
       /\ remote_url[3] = "/"

\* remote [ok, url]: "git config --get remote.origin.url" succeeded, and its
\* output; the ValueError of an unlisted URL ends in the same except clause as
\* a failed command
get_repo_from_git(remote) ==
    IF remote.ok /\ TrustedRemote(remote.url)
    THEN [owner |-> remote.url[2], repo |-> remote.url[4]]
    ELSE [owner |-> "unknown", repo |-> "unknown"]

\* REPO_OWNER, REPO_NAME from GITHUB_REPOSITORY when it holds a "/", from the
\* remote otherwise
RepoCoordinates(env_repo, remote) ==
    IF \E i \in 1..Len(env_repo) : env_repo[i] = "/"
    THEN [owner |-> env_repo[1], repo |-> env_repo[3]]
    ELSE get_repo_from_git(remote)

UnknownUrlStr ==
    <<"https://github.com/unknown/unknown/pull/1",
      "https://github.com/unknown/unknown/pull/2",
      "https://github.com/unknown/unknown/pull/3",
      "https://github.com/unknown/unknown/pull/4",
      "https://github.com/unknown/unknown/pull/5">>

\* f"https://github.com/{owner}/{repo}/pull/{pr_number}"
PullUrl(coords, n) ==
    IF coords = [owner |-> "o", repo |-> "r"] THEN UrlStr[n] ELSE UnknownUrlStr[n]

\* one record of the merge history of a repository at coords: the whole log
\* line is the title
GitRecordAt(n, coords) ==
    [number |-> n,
     title |-> <<"abc123 ", "Merge pull request ", "#", ToStr(n), " from o/b">>,
     body |-> <<>>, html_url |-> PullUrl(coords, n), labels |-> <<>>]

GitRecord(n) == GitRecordAt(n, [owner |-> "o", repo |-> "r"])

\* git [ok, items]: the merge log could be read, and the records parsed from it
get_merged_prs_from_git(git, limit) ==
    IF git.ok THEN SubSeq(git.items, 1, IF Len(git.items) < limit THEN Len(git.items)
                                        ELSE limit)
    ELSE <<>>

get_merged_prs_since_Both(api, git, limit) ==
    IF api.ok THEN api.items \o get_merged_prs_from_git(git, limit)
    ELSE get_merged_prs_from_git(git, limit)

\* api [ok, items]: the search request succeeded, and the items of its payload
get_merged_prs_since(api, git, limit) ==
    IF api.ok THEN api.items ELSE get_merged_prs_from_git(git, limit)

(***************************************************************************)
(* Inputs.                                                                 *)
(***************************************************************************)
\* default of the limit arguments
DefaultLimit == 100

\* title, body and labels of the merged changes the runs are given
FeatShape ==
    [title |-> <<"feat: ", "add", SP, "cache">>, body |-> <<>>, labels |-> <<"feature">>]

WipShape == [title |-> <<"**WIP**">>, body |-> <<>>, labels |-> <<>>]

Shapes == {FeatShape, WipShape}

Record(n, sh) ==
    [number |-> n, title |-> sh.title, body |-> sh.body, html_url |-> UrlStr[n],
     labels |-> sh.labels]

\* the records a merge event may carry
Records == { Record(n, sh) : n \in Ids, sh \in Shapes }

\* the records of the search API: one per id
ApiRecords == { Record(n, IF n % 2 = 1 THEN FeatShape ELSE WipShape) : n \in Ids }

\* sequences of at most MaxFetch records of R, no id twice
RECURSIVE ListsOf(_, _)
ListsOf(R, len) ==
    IF len = 0 THEN {<<>>}
    ELSE LET shorter == ListsOf(R, len - 1)
         IN  shorter \cup
             { Append(l, r) : l \in {x \in shorter : Len(x) = len - 1},
                              r \in R }

UniqueIds(prs) ==
    \A i, j \in 1..Len(prs) : prs[i].number = prs[j].number => i = j

ApiLists == {l \in ListsOf(ApiRecords, MaxFetch) : UniqueIds(l)}

GitLists == {l \in ListsOf({GitRecord(n) : n \in Ids}, MaxFetch) : UniqueIds(l)}

\* pieces of the documents the runs start from
TitleIntro == <<TITLE, NL, NL, "Intro", NL, NL>>

HandRegion ==
    <<UNRELEASED, NL, NL, H3, "Added", NL,
      BULLET, "old", SP, "(", "#", "1", ")", NL,
      NL, H3, "Fixed", NL,
      BULLET, "patch", NL>>

Released == <<NL, VERSION, NL, NL, H3, "Fixed", NL, BULLET, "released", NL>>

\* a released version under a heading without brackets, its entry with a link
PlainReleased ==
    <<PLAINVERSION, NL, H3, "Added", NL, BULLET, "fix">> \o LinkSuffix("1", UrlStr[1])
        \o <<NL>>

\* the documents the runs start from: empty; without the marker, with and
\* without a title and released versions; with the marker, with and without
\* text around the region; none holds an id in two bullet lines
InitDocs ==
    { <<>>,
      TitleIntro,
      TitleIntro \o Tail(Released),
      <<"Intro", NL>> \o Released,
      <<TITLE, NL, NL>> \o PlainReleased,
      TitleIntro \o HandRegion \o Released,
      HandRegion,
      <<TITLE, NL, NL, UNRELEASED, NL>> \o Released }

(***************************************************************************)
(* State.                                                                  *)
(***************************************************************************)
VARIABLES
    file_exists,   \* CHANGELOG_PATH.exists()
    content,       \* text of the file, <<>> when there is none
    orig,          \* the text the first run started from
    lastOp,        \* the mode of the last run
    lastPrs,       \* the records the last run was given
    ret,           \* what the last run returned
    writes,        \* number of write_text calls of the last run
    merged,        \* ids of the records some run rendered into the file
    updated_env,   \* the last run set CHANGELOG_UPDATED to "true"
    exit_code,     \* exit status of the last run
    inp,           \* arguments of the function under study
    out            \* what the function returned for inp

\* the state of the runs
runVars ==
    <<file_exists, content, orig, lastOp, lastPrs, ret, writes, merged, updated_env,
      exit_code>>

vars == <<runVars, inp, out>>

\* no function call under study
NoCall == [done |-> FALSE]

\* the branch main() of update_changelog.py takes
MainMode(event_action, pr_number, is_historical) ==
    IF event_action = "closed" /\ pr_number # "" THEN "single"
    ELSE IF is_historical THEN "history"
    ELSE "noaction"

\* exit status of populate_changelog.py for what populate_changelog returned
PopulateExit(returned) == IF returned = "True" THEN 0 ELSE 1

Numbers(prs) == {prs[i].number : i \in 1..Len(prs)}

\* before the first run, on the given text
Idle(exists, text) ==
    /\ file_exists = exists
    /\ content = text
    /\ orig = text
    /\ lastOp = "none"
    /\ lastPrs = <<>>
    /\ ret = "None"
    /\ writes = 0
    /\ merged = {}
    /\ updated_env = FALSE
    /\ exit_code = 0

Init ==
    /\ \/ /\ file_exists = FALSE
          /\ content = <<>>
       \/ /\ file_exists = TRUE
          /\ content \in InitDocs
    /\ orig = content
    /\ lastOp = "none"
    /\ lastPrs = <<>>
    /\ ret = "None"
    /\ writes = 0
    /\ merged = {}
    /\ updated_env = FALSE
    /\ exit_code = 0
    /\ inp = NoCall
    /\ out = NoCall

\* one merge event: update_changelog_single_pr with the labels get_pr_labels
\* returned, which are the record's labels or none when the request failed
SinglePr ==
    \E r \in Records, labelsOk \in BOOLEAN :
        \E labels \in {IF labelsOk THEN r.labels ELSE <<>>} :
        \E res \in {update_changelog_single_pr(file_exists, content,
                        ToStr(r.number), r.title, r.body, r.html_url, labels)} :
            /\ MainMode("closed", ToStr(r.number), FALSE) = "single"
            /\ file_exists' = res.file_exists
            /\ content' = res.content
            /\ ret' = res.ret
            /\ writes' = res.writes
            /\ lastOp' = "single"
            /\ lastPrs' = <<[r EXCEPT !.labels = labels]>>
            /\ merged' = IF res.writes > 0 THEN merged \cup {r.number} ELSE merged
            /\ updated_env' = (res.ret = "True")
            /\ exit_code' = 0
            /\ UNCHANGED <<orig, inp, out>>

\* what a fetch returns: the items of the API, or the merge history when the
\* API request failed, or nothing when both failed
Fetched ==
    { get_merged_prs_since([ok |-> TRUE, items |-> l], [ok |-> FALSE, items |-> <<>>],
                           DefaultLimit) : l \in ApiLists }
    \cup
    { get_merged_prs_since([ok |-> FALSE, items |-> <<>>], [ok |-> TRUE, items |-> l],
                           DefaultLimit) : l \in GitLists }
    \cup
    { get_merged_prs_since([ok |-> FALSE, items |-> <<>>],
                           [ok |-> FALSE, items |-> <<>>], DefaultLimit) }

\* IS_HISTORICAL: build_full_changelog_from_history
BuildFull ==
    \E prs \in Fetched :
        \E res \in {build_full_changelog_from_history(file_exists, content, prs)} :
            /\ file_exists' = res.file_exists
            /\ content' = res.content
            /\ ret' = res.ret
            /\ writes' = res.writes
            /\ MainMode("", "", TRUE) = "history"
            /\ lastOp' = "history"
            /\ lastPrs' = prs
            /\ updated_env' = TRUE
            /\ exit_code' = 0
            /\ merged' = IF res.writes > 0 THEN merged \cup Numbers(res.new_prs)
                         ELSE merged
            /\ UNCHANGED <<orig, inp, out>>

\* populate_changelog.py: populate_changelog
Populate ==
    \E prs \in Fetched :
        \E res \in {populate_changelog(file_exists, content, prs)} :
            /\ file_exists' = res.file_exists
            /\ content' = res.content
            /\ ret' = res.ret
            /\ writes' = res.writes
            /\ lastOp' = "populate"
            /\ lastPrs' = prs
            /\ updated_env' = FALSE
            /\ exit_code' = PopulateExit(res.ret)
            /\ merged' = IF res.writes > 0 THEN merged \cup Numbers(res.new_prs)
                         ELSE merged
            /\ UNCHANGED <<orig, inp, out>>

\* update_changelog.py started without a merge event and without IS_HISTORICAL
NoAction ==
    \E event_action \in {"", "opened"} :
        /\ MainMode(event_action, "", FALSE) = "noaction"
        /\ lastOp' = "noaction"
        /\ lastPrs' = <<>>
        /\ ret' = "None"
        /\ writes' = 0
        /\ updated_env' = FALSE
        /\ exit_code' = 0
        /\ UNCHANGED <<file_exists, content, orig, merged, inp, out>>

Next == SinglePr \/ BuildFull \/ Populate \/ NoAction

Spec == Init /\ [][Next]_vars

(***************************************************************************)
(* The classifier and the renderer on their own.                           *)
(***************************************************************************)
MaxLabels == 2

\* titles, bodies and labels of merged changes
PureTitles ==
    { <<"feat: ", "add", SP, "cache">>, <<"fix: ", "add", SP, "cache">>,
      <<"fix: ", "crash">>, <<"**WIP**">>, <<"**WIP**", SP, "tune">>, <<"tune">>,
      <<SP>>, <<"Security", SP, "renew">> }

PureBodies ==
    { <<>>,
      <<"## Changelog", NL, "Improves", SP, "latency", NL, "## Notes", NL, "n">>,
      <<"text", NL, "## Changelog", NL, NL, "## Notes", NL, "Fixed">>,
      <<"## Changelog", NL, SP, "Improves", NL, "more", NL>> }

PureLabels == {"feature", "bug", "security", "wontfix"}

RECURSIVE LabelLists(_)
LabelLists(len) ==
    IF len = 0 THEN {<<>>}
    ELSE LET shorter == LabelLists(len - 1)
         IN  shorter \cup
             { Append(l, x) : l \in {y \in shorter : Len(y) = len - 1},
                              x \in PureLabels }

PureInputs ==
    { [done |-> TRUE, number |-> n, title |-> t, body |-> b, labels |-> l,
       html_url |-> UrlStr[n]] :
        n \in Ids, t \in PureTitles, b \in PureBodies, l \in LabelLists(MaxLabels) }

InitPure ==
    /\ Idle(FALSE, <<>>)
    /\ inp \in PureInputs
    /\ out = NoCall

\* one record classified and rendered, as build_changelog_content does
ClassifyAndRender ==
    /\ ~out.done
    /\ out' = [done |-> TRUE,
               category |-> categorize_change(inp.title, inp.body, inp.labels),
               entry |-> extract_changelog_entry(inp.title, inp.body,
                                                 ToStr(inp.number), inp.html_url)]
    /\ UNCHANGED <<runVars, inp>>

NextPure == ClassifyAndRender

SpecPure == InitPure /\ [][NextPure]_vars

(***************************************************************************)
(* The record source on its own: one bulk run whose API response, merge    *)
(* log, GITHUB_REPOSITORY and remote URL are given.                        *)
(***************************************************************************)
\* requests.get raised; raise_for_status raised; response.json() raised; the
\* payload has no "items"; the payload has items
ApiKinds == {"transport", "status", "badjson", "no_items", "items"}

ApiFailures == {"transport", "status", "badjson"}

\* the request and the decoding of its payload, as [ok, items]
ApiResponse(kind, items) ==
    [ok |-> kind \notin ApiFailures, items |-> IF kind = "items" THEN items ELSE <<>>]

\* git is not installed; git log timed out; the log was read
GitKinds == {"unavailable", "timeout", "log"}

\* the run of "git log --merges" and the records of its lines, as [ok, items]
GitLog(kind, ids, coords) ==
    [ok |-> kind = "log",
     items |-> IF kind = "log" THEN [i \in 1..Len(ids) |-> GitRecordAt(ids[i], coords)]
               ELSE <<>>]

\* sequences of at most MaxFetch ids, none twice
IdLists == { [i \in 1..Len(l) |-> l[i].number] : l \in GitLists }

EnvRepos == { <<>>, <<"o", "/", "r">> }

RemoteUrls ==
    { <<"git@github.com:", "o", "/", "r", ".git">>,
      <<"git@github.com:", "o", "/", "r">>,
      <<"https://github.com/", "o", "/", "r">>,
      <<"https://github.com/", "o", "/", "r", ".git">>,
      <<"https://github.com/", "o", "/", "r", "/">>,
      <<"https://evil.example/", "o", "/", "r", ".git">>,
      <<"git@gitlab.com:", "o", "/", "r", ".git">> }

Remotes ==
    { [ok |-> TRUE, url |-> u] : u \in RemoteUrls } \cup { [ok |-> FALSE, url |-> <<>>] }

FetchInputs ==
    { [done |-> TRUE, env_repo |-> e, remote |-> r, api_kind |-> ak, api_items |-> ai,
       git_kind |-> gk, git_ids |-> gi] :
        e \in EnvRepos, r \in Remotes, ak \in ApiKinds, ai \in ApiLists,
        gk \in GitKinds, gi \in IdLists }

InitFetch ==
    /\ \/ Idle(FALSE, <<>>)
       \/ Idle(TRUE, TitleIntro \o HandRegion \o Released)
    /\ inp \in { i \in FetchInputs :
                    /\ i.api_kind # "items" => i.api_items = <<>>
                    /\ i.git_kind # "log" => i.git_ids = <<>> }
    /\ out = NoCall

\* what get_merged_prs_since returns for the inputs of the run, and where from
FetchOf(i) ==
    LET coords == RepoCoordinates(i.env_repo, i.remote)
        api == ApiResponse(i.api_kind, i.api_items)
        git == GitLog(i.git_kind, i.git_ids, coords)
    IN  [done |-> TRUE,
         coords |-> coords,
         source |-> IF api.ok THEN "api" ELSE "git",
         prs |-> get_merged_prs_since(api, git, DefaultLimit)]

\* update_changelog.py with IS_HISTORICAL
HistoryFetch ==
    \E f \in {FetchOf(inp)} :
        \E res \in {build_full_changelog_from_history(file_exists, content, f.prs)} :
            /\ ~out.done
            /\ out' = f
            /\ file_exists' = res.file_exists
            /\ content' = res.content
            /\ ret' = res.ret
            /\ writes' = res.writes
            /\ lastOp' = "history"
            /\ lastPrs' = f.prs
            /\ updated_env' = TRUE
            /\ exit_code' = 0
            /\ merged' = IF res.writes > 0 THEN merged \cup Numbers(res.new_prs)
                         ELSE merged
            /\ UNCHANGED <<orig, inp>>

\* populate_changelog.py
PopulateFetch ==
    \E f \in {FetchOf(inp)} :
        \E res \in {populate_changelog(file_exists, content, f.prs)} :
            /\ ~out.done
            /\ out' = f
            /\ file_exists' = res.file_exists
            /\ content' = res.content
            /\ ret' = res.ret
            /\ writes' = res.writes
            /\ lastOp' = "populate"
            /\ lastPrs' = f.prs
            /\ updated_env' = FALSE
            /\ exit_code' = PopulateExit(res.ret)
            /\ merged' = IF res.writes > 0 THEN merged \cup Numbers(res.new_prs)
                         ELSE merged
            /\ UNCHANGED <<orig, inp>>

NextFetch == HistoryFetch \/ PopulateFetch

SpecFetch == InitFetch /\ [][NextFetch]_vars

(***************************************************************************)
(* The command line of populate_changelog.py: --since.                     *)
(***************************************************************************)
\* the runs of digits of the dates, by their length
FourDigits == {"2025"}
TwoDigits == {"06", "01", "02", "30", "13"}
OneDigit == {"6", "1"}

\* int(tok)
DateNum(tok) ==
    CASE tok = "2025" -> 2025
      [] tok \in {"06", "6"} -> 6
      [] tok \in {"01", "1"} -> 1
      [] tok = "02" -> 2
      [] tok = "30" -> 30
      [] tok = "13" -> 13
      [] OTHER -> 0

\* the days of a month
DaysIn(year, month) ==
    IF month = 2
    THEN (IF year % 4 = 0 /\ (year % 100 # 0 \/ year % 400 = 0) THEN 29 ELSE 28)
    ELSE IF month \in {4, 6, 9, 11} THEN 30 ELSE 31

\* datetime.strptime(since, "%Y-%m-%d") raises nothing: %Y takes four digits,
\* %m and %d one or two
strptime_ok(since) ==
    /\ Len(since) = 5
    /\ since[2] = "-"
    /\ since[4] = "-"
    /\ since[1] \in FourDigits
    /\ since[3] \in OneDigit \cup TwoDigits
    /\ DateNum(since[3]) \in 1..12
    /\ since[5] \in OneDigit \cup TwoDigits
    /\ DateNum(since[5]) \in 1..DaysIn(DateNum(since[1]), DateNum(since[3]))

\* args.since: None when the option is absent
Sinces ==
    { [given |-> FALSE, text |-> <<>>] } \cup
    { [given |-> TRUE, text |-> t] :
        t \in { <<"2025", "-", "06", "-", "01">>, <<"2025", "-", "6", "-", "1">>, <<>>,
                <<"06", "-", "01", "-", "2025">>, <<"2025", "-", "02", "-", "30">>,
                <<"2025", "-", "13", "-", "01">>, <<"yesterday">> } }

\* "if args.since:" and the try around strptime
SinceRejected(since) == since.given /\ since.text # <<>> /\ ~strptime_ok(since.text)

InitCli ==
    /\ \/ Idle(FALSE, <<>>)
       \/ \E doc \in InitDocs : Idle(TRUE, doc)
    /\ inp \in { [done |-> TRUE, since |-> x] : x \in Sinces }
    /\ out = NoCall

\* sys.exit(1) after "Invalid date format"
RejectSince ==
    /\ ~out.done
    /\ SinceRejected(inp.since)
    /\ out' = [done |-> TRUE, fetched |-> FALSE]
    /\ lastOp' = "populate"
    /\ lastPrs' = <<>>
    /\ ret' = "None"
    /\ writes' = 0
    /\ updated_env' = FALSE
    /\ exit_code' = 1
    /\ UNCHANGED <<file_exists, content, orig, merged, inp>>

\* populate_changelog(limit=args.limit, since=args.since) and the exit
PopulateSince ==
    \E prs \in Fetched :
        \E res \in {populate_changelog(file_exists, content, prs)} :
            /\ ~out.done
            /\ ~SinceRejected(inp.since)
            /\ out' = [done |-> TRUE, fetched |-> TRUE]
            /\ file_exists' = res.file_exists
            /\ content' = res.content
            /\ ret' = res.ret
            /\ writes' = res.writes
            /\ lastOp' = "populate"
            /\ lastPrs' = prs
            /\ updated_env' = FALSE
            /\ exit_code' = PopulateExit(res.ret)
            /\ merged' = IF res.writes > 0 THEN merged \cup Numbers(res.new_prs)
                         ELSE merged
            /\ UNCHANGED <<orig, inp>>

NextCli == RejectSince \/ PopulateSince

SpecCli == InitCli /\ [][NextCli]_vars

(***************************************************************************)
(* What the properties observe.                                            *)
(***************************************************************************)
\* the existing-id set of the document
ExistingIds(exists, text) == {ToInt(e) : e \in parse_changelog(exists, text).pr_numbers}

\* the text between the marker and the next "## [" line
ManagedRegion(text) == SplitChangelog(text).unreleased_content

\* the bullet line of an entry
BulletLine(entry) == <<BULLET>> \o entry \o <<NL>>

\* the entry the renderer produces for a record
EntryOf(pr) ==
    extract_changelog_entry(pr.title, pr.body, ToStr(pr.number), pr.html_url)

\* the category the classifier gives a record
CategoryOf(pr) == categorize_change(pr.title, pr.body, pr.labels)

\* the lines of a text, without their newlines
RECURSIVE Lines(_)
Lines(s) ==
    IF s = <<>> THEN <<>>
    ELSE IF NewlineFrom(s, 1) = 0 THEN <<s>>
    ELSE <<Upto(s, NewlineFrom(s, 1))>> \o Lines(From(s, NewlineFrom(s, 1) + 1))

\* the line refers to change n: "#<n>"
Mentions(line, n) ==
    \E k \in 1..(Len(line) - 1) : line[k] = "#" /\ line[k + 1] = ToStr(n)

\* the bullet lines of the managed region that refer to change n
BulletsMentioning(n, text) ==
    LET ls == Lines(ManagedRegion(text))
    IN  {i \in 1..Len(ls) : ls[i] # <<>> /\ ls[i][1] = BULLET /\ Mentions(ls[i], n)}

\* sub is s with some tokens left out
RECURSIVE IsSubsequence(_, _)
IsSubsequence(sub, s) ==
    IF sub = <<>> THEN TRUE
    ELSE IF s = <<>> THEN FALSE
    ELSE IF Head(sub) = Head(s) THEN IsSubsequence(Tail(sub), Tail(s))
    ELSE IsSubsequence(sub, Tail(s))

Bulk == {"history", "populate"}

(***************************************************************************)
(* Properties.                                                             *)
(***************************************************************************)
\* C1: every id some earlier run merged into the managed region is in the
\* existing-id set parse returns for the current document.
C1_LedgerKeepsMerged == merged \subseteq ExistingIds(file_exists, content)

\* C2: when the line the renderer produces for a record stands as a bullet in
\* the managed region, parse returns the record's id in the existing-id set.
C2_RenderParseRoundTrip ==
    \A pr \in Records :
        Occurs(BulletLine(EntryOf(pr)), ManagedRegion(content))
            => pr.number \in ExistingIds(file_exists, content)

\* C3: a bulk run that follows a bulk run of the same entry point with the same
\* fetched records leaves the document as the first run left it.
C3_BulkIdempotent ==
    [][(lastOp \in Bulk /\ lastOp' = lastOp /\ lastPrs' = lastPrs)
          => (content' = content /\ file_exists' = file_exists)]_vars

\* C4: single-record mode on a record whose id is in the existing-id set of the
\* current document returns the no-update result, writes nothing and leaves
\* the document unchanged.
C4_DedupNoOp ==
    [][(lastOp' = "single" /\ lastPrs'[1].number \in ExistingIds(file_exists, content))
          => (/\ ret' = "False"
              /\ writes' = 0
              /\ content' = content
              /\ file_exists' = file_exists)]_vars

\* a merge event for a record already in the ledger ended without an update
C4_Witness ==
    /\ lastOp = "single"
    /\ ret = "False"
    /\ writes = 0
    /\ lastPrs[1].number \in ExistingIds(file_exists, content)

\* C5: after any runs over records with unique ids, no record id appears in
\* more than one bullet line of the managed region.
C5_AtMostOnce == \A n \in Ids : Cardinality(BulletsMentioning(n, content)) <= 1

\* C6: a merge event that adds an entry leaves the bullet lines of every other
\* category of the managed region as they were, in the same order.
C6_OtherCategoriesUntouched ==
    [][(lastOp' = "single" /\ writes' = 1)
          => \A c \in Categories \ {CategoryOf(lastPrs'[1])} :
                ExistingEntries(c, ManagedRegion(content'))
                    = ExistingEntries(c, ManagedRegion(content))]_vars

\* C7: a merge event whose category already has entries e1..en leaves the
\* category with the new entry followed by e1..en.
C7_InsertedAtFront ==
    [][(/\ lastOp' = "single"
        /\ writes' = 1
        /\ ExistingEntries(CategoryOf(lastPrs'[1]), ManagedRegion(content)) # <<>>)
          => ExistingEntries(CategoryOf(lastPrs'[1]), ManagedRegion(content'))
                = <<EntryOf(lastPrs'[1])>>
                  \o ExistingEntries(CategoryOf(lastPrs'[1]), ManagedRegion(content))]_vars

\* C8: the text of the original preamble and of the original trailer is still
\* in the document, in the same order.
C8_OutsidePreserved ==
    IsSubsequence(SplitChangelog(orig).before \o SplitChangelog(orig).after, content)

\* C9: a run that writes a document that had no marker puts the managed region
\* right after the title line, or at the start when there is no title line.
C9_InsertedAfterTitle ==
    [][(writes' = 1 /\ file_exists /\ ~HasMarker(content))
          => LET m == unreleased_match(content')
                 t == TitleLineEnd(content)
             IN  /\ m # 0
                 /\ IF t = 0 THEN m = 1
                    ELSE Upto(content', m) \in
                            {SubSeq(content, 1, t), SubSeq(content, 1, t) \o <<NL>>}]_vars

\* C10: a bulk run whose fetched records are all in the existing-id set writes
\* nothing and leaves the document as it was.
C10_BulkAllKnownNoOp ==
    [][(/\ lastOp' \in Bulk
        /\ lastPrs' # <<>>
        /\ Numbers(lastPrs') \subseteq ExistingIds(file_exists, content))
          => (writes' = 0 /\ content' = content /\ file_exists' = file_exists)]_vars

\* C11: a bulk run whose fetch returned no records writes nothing and leaves
\* the document as it was.
C11_EmptyFetchNoOp ==
    [][(lastOp' \in Bulk /\ lastPrs' = <<>>)
          => (writes' = 0 /\ content' = content /\ file_exists' = file_exists)]_vars

\* a bulk run of each entry point ended without records, on a document with text
C11_Witness ==
    /\ lastOp \in Bulk
    /\ lastPrs = <<>>
    /\ writes = 0
    /\ content # <<>>
    /\ content = orig

\* what the caller sees of the last run: populate_changelog.py exits with 0,
\* update_changelog.py sets CHANGELOG_UPDATED
SignalsUpdate == IF lastOp = "populate" THEN exit_code = 0 ELSE updated_env

\* C12: in every mode the run signals "update performed" exactly when it wrote
\* the document, and "no update performed" when it ended in NoOp.
C12_SignalMatchesOutcome == lastOp # "none" => (SignalsUpdate <=> writes = 1)

\* the elements of a list
TokensOf(s) == {s[i] : i \in 1..Len(s)}

\* the labels of a list that are keys of the table
MappedLabels(labels) == {labels[i] : i \in {j \in 1..Len(labels) : InMapping(labels[j])}}

\* the key of S that comes first in the table
TableFirst(S) ==
    MappingKeys[CHOOSE i \in 1..Len(MappingKeys) :
                    /\ MappingKeys[i] \in S
                    /\ \A j \in 1..(i - 1) : MappingKeys[j] \notin S]

\* C13: with several mapped labels the category is that of the label whose key
\* comes first in the table, whatever the order of the labels.
C13_LabelTableOrder ==
    (out.done /\ MappedLabels(inp.labels) # {})
        => out.category = CATEGORY_MAPPING(TableFirst(MappedLabels(inp.labels)))

\* the table keys that occur in the lower-cased "title body" of a record
KeysInText(pr_title, pr_body) ==
    {MappingKeys[i] : i \in {j \in 1..Len(MappingKeys) :
                                \/ KeywordIn(MappingKeys[j], pr_title)
                                \/ KeywordIn(MappingKeys[j], pr_body)}}

\* C14: a mapped label wins over the keywords of the text; without a mapped
\* label the first table key found in "title body" decides; without either the
\* category is Changed; the result is always one of the six categories.
C14_RulePrecedence ==
    out.done =>
        LET mapped == MappedLabels(inp.labels)
            keys == KeysInText(inp.title, inp.body)
        IN  /\ out.category \in Categories
            /\ mapped # {} => out.category \in {CATEGORY_MAPPING(l) : l \in mapped}
            /\ (mapped = {} /\ keys # {})
                   => out.category = CATEGORY_MAPPING(TableFirst(keys))
            /\ (mapped = {} /\ keys = {}) => out.category = "Changed"

\* a mapped label against a different keyword of the text
C14_Witness ==
    /\ out.done
    /\ MappedLabels(inp.labels) = {"bug"}
    /\ "wontfix" \in TokensOf(inp.labels)
    /\ KeysInText(inp.title, inp.body) = {"new", "security"}
    /\ out.category = "Fixed"

\* the lines between the first changelog heading of a body and the next heading
\* or the end of the text
ExcerptSection(pr_body) ==
    LET heads == {k \in 1..Len(pr_body) :
                     IsChangelogHeading(pr_body[k]) /\ HeadingNewline(pr_body, k) # 0}
        k0 == MinOr0(heads)
        lineEnd == MinOr0({j \in (k0 + 1)..Len(pr_body) : pr_body[j] = NL})
        nextHead == MinOr0({p \in (lineEnd + 1)..Len(pr_body) : StartsHash(pr_body[p])})
    IN  IF k0 = 0 THEN <<>>
        ELSE IF nextHead = 0 THEN From(pr_body, lineEnd + 1)
        ELSE SubSeq(pr_body, lineEnd + 1, nextHead - 1)

\* C19: the description of a rendered line is the trimmed changelog excerpt of
\* the body when that is not empty, otherwise the title without its commit
\* prefix and bold remnant, both followed by the link suffix; only when that is
\* empty too the line is the literal "PR #<id> (<url>)".
C19_RendererPreference ==
    out.done =>
        LET excerpt == Strip(ExcerptSection(inp.body))
            title == Strip(StripBold(StripCommitPrefix(Strip(inp.title))))
            suffix == LinkSuffix(ToStr(inp.number), inp.html_url)
        IN  out.entry = IF excerpt # <<>> THEN excerpt \o suffix
                        ELSE IF title # <<>> THEN title \o suffix
                        ELSE <<"PR ", "#", ToStr(inp.number), SP, "(", inp.html_url, ")">>

\* the positions of the category subheadings in a text
SubheadingsAt(text) == {k \in 1..(Len(text) - 1) : text[k] = H3}

\* the place of a category in category_order, 0 for any other heading text
CategoryIndex(cat) ==
    LET name == cat
        at == {i \in 1..Len(category_order) : category_order[i] = name}
    IN  MinOr0(at)

\* C15: in the managed region of a written document the category subheadings
\* follow the enumeration order, each at most once, and each has an entry.
C15_CategoryOrder ==
    writes = 1 =>
        LET region == ManagedRegion(content)
            heads == SubheadingsAt(region)
        IN  /\ \A k \in heads : CategoryIndex(region[k + 1]) # 0
            /\ \A j, k \in heads :
                   j < k => CategoryIndex(region[j + 1]) < CategoryIndex(region[k + 1])
            /\ \A k \in heads :
                   /\ k + 3 <= Len(region)
                   /\ region[k + 2] = NL
                   /\ region[k + 3] = BULLET

\* the position after the line that starts at position k: of its newline, or
\* past the end of the text
LineEnd(s, k) ==
    IF \E j \in k..Len(s) : s[j] = NL
    THEN CHOOSE j \in k..Len(s) : s[j] = NL /\ \A i \in k..(j - 1) : s[i] # NL
    ELSE Len(s) + 1

\* the lines of a text from position k on that are not blank, without their
\* newlines
RECURSIVE NonBlankFrom(_, _)
NonBlankFrom(s, k) ==
    IF k > Len(s) THEN <<>>
    ELSE CHOOSE lines \in
             { (IF \A i \in k..(e - 1) : IsSpace(s[i]) THEN <<>>
                ELSE <<SubSeq(s, k, e - 1)>>) \o NonBlankFrom(s, e + 1) :
               e \in {LineEnd(s, k)} } : TRUE

\* the records of a list whose number is not in a set
Without(prs, known) ==
    LET new(pr) == pr.number \notin known
    IN  SelectSeq(prs, new)

\* the indices in category_order of the categories of the records prs
CategoriesOf(prs) ==
    <<>> \o [i \in 1..Len(prs) |-> CategoryIndex(CategoryOf(prs[i]))]

\* lines starts with the region of the records prs, whose categories are cats:
\* a subheading for each category that has a record, the categories in the
\* order of category_order, and under it the bullet lines of its records in the
\* order of prs
LeadsWithSections(lines, prs, cats) ==
    LET used == {cats[i] : i \in 1..Len(prs)}
        \* the line of the subheading of the category with index c
        headingAt(c) ==
            Cardinality({d \in used : d < c})
                + Cardinality({j \in 1..Len(prs) : cats[j] < c}) + 1
        \* the line of the bullet of record i
        bulletAt(i) ==
            headingAt(cats[i]) + Cardinality({j \in 1..i : cats[j] = cats[i]})
    IN  /\ Len(lines) >= Len(prs) + Cardinality(used)
        /\ \A c \in used : lines[headingAt(c)] = <<H3, category_order[c]>>
        /\ \A i \in 1..Len(prs) : lines[bulletAt(i)] = <<BULLET>> \o EntryOf(prs[i])

\* the number of subheading and bullet lines of the region of records of the
\* categories cats
SectionLength(cats) ==
    Len(cats) + Cardinality({cats[i] : i \in 1..Len(cats)})

FromGit(prs) == \A i \in 1..Len(prs) : prs[i].title[1] = "abc123 "
FromApi(prs) == \A i \in 1..Len(prs) : prs[i] \in ApiRecords

\* C16: the fetch returns the items of the API when the request succeeded and
\* the records of the merge log when it failed, the merge log being read only
\* then; it never mixes the two, and returns the empty list when both failed.
C16_FallbackChain ==
    out.done =>
        LET primaryFailed == inp.api_kind \in ApiFailures
        IN  /\ (out.source = "git") <=> primaryFailed
            /\ ~primaryFailed => out.prs = inp.api_items
            /\ FromApi(out.prs) \/ FromGit(out.prs)
            /\ (primaryFailed /\ inp.git_kind = "log")
                   => /\ FromGit(out.prs)
                      /\ [i \in 1..Len(out.prs) |-> out.prs[i].number] = inp.git_ids
            /\ (primaryFailed /\ inp.git_kind # "log") => out.prs = <<>>

\* the API answered with items while the merge log holds other records
C16_Witness ==
    /\ out.done
    /\ inp.api_kind = "items"
    /\ inp.git_kind = "log"
    /\ Len(inp.api_items) = 1
    /\ Len(inp.git_ids) = 2
    /\ out.prs = inp.api_items
    /\ writes = 1

\* C17: without GITHUB_REPOSITORY and with a remote URL outside the listed
\* shapes the run fails and writes nothing.
C17_UntrustedRemoteRejected ==
    (/\ out.done
     /\ inp.env_repo = <<>>
     /\ inp.remote.ok
     /\ ~TrustedRemote(inp.remote.url))
        => (exit_code # 0 /\ writes = 0 /\ content = orig)

\* the text has the form YYYY-MM-DD and names a day of the calendar
IsYMD(text) ==
    /\ strptime_ok(text)
    /\ text[3] \in TwoDigits
    /\ text[5] \in TwoDigits

\* C18: a since that is given and is not a YYYY-MM-DD date ends the run with a
\* failure exit before any fetch and with the document untouched; a valid or
\* absent since leads to the fetch.
C18_SinceValidated ==
    out.done =>
        /\ (inp.since.given /\ ~IsYMD(inp.since.text))
               => (~out.fetched /\ exit_code = 1 /\ writes = 0 /\ content = orig)
        /\ (~inp.since.given \/ IsYMD(inp.since.text)) => out.fetched

(***************************************************************************)
(* One run, statement by statement: where it reads, where it may end       *)
(* early, and where it writes.                                             *)
(***************************************************************************)
\* the positions of a run are "Idle", those in which it works, and the ends
\* "Persisted", "NoOp" and "Failed"; in the positions in which it works it has
\* not written
Working == {"Fetching", "Filtering", "Classifying", "Rendering", "Merging", "Writing"}

\* the values of PR_NUMBER of a merge event: numbers, and a text int() refuses
PrNumbers == {ToStr(n) : n \in Ids} \cup {"abc"}

\* what a run is started with: a merge event, or the records of a fetch
StepInputs ==
    { [done |-> TRUE, mode |-> "single", pr_number |-> n, shape |-> sh, prs |-> <<>>] :
        n \in PrNumbers, sh \in Shapes }
    \cup
    { [done |-> TRUE, mode |-> m, pr_number |-> "", shape |-> WipShape, prs |-> l] :
        m \in {"history", "populate"}, l \in Fetched }

\* what the run holds at a position
StepState(pc, new_prs, categories, entries, new_content) ==
    [done |-> pc \in {"Persisted", "NoOp", "Failed"}, pc |-> pc, new_prs |-> new_prs,
     categories |-> categories, entries |-> entries, new_content |-> new_content]

\* CHANGELOG_PATH.write_text(data) on a file that holds old
write_text_Appends(old, data) ==
    old \o data

write_text(old, data) ==
    data

\* the document a run that goes through writes, from the document it read
NewContentOf(i, exists, text) ==
    IF i.mode = "single"
    THEN update_changelog_single_pr(exists, text, i.pr_number, i.shape.title,
                                    i.shape.body, UrlStr[ToInt(i.pr_number)],
                                    i.shape.labels).content
    ELSE IF i.mode = "history"
    THEN build_full_changelog_from_history(exists, text, i.prs).content
    ELSE populate_changelog(exists, text, i.prs).content

InitSteps ==
    /\ \/ Idle(FALSE, <<>>)
       \/ \E doc \in InitDocs : Idle(TRUE, doc)
    /\ inp \in StepInputs
    /\ out = StepState("Idle", <<>>, <<>>, <<>>, <<>>)

\* the run starts: a bulk run with the fetch, a merge event with the look-up
\* of its number in the document
StartRun ==
    /\ out.pc = "Idle"
    /\ out' = [out EXCEPT !.pc = IF inp.mode = "single" THEN "Filtering"
                                 ELSE "Fetching"]
    /\ lastOp' = inp.mode
    /\ UNCHANGED <<file_exists, content, orig, lastPrs, ret, writes, merged,
                   updated_env, exit_code, inp>>

\* prs = get_merged_prs_since(...); if not prs: return
FetchDone ==
    /\ out.pc = "Fetching"
    /\ out' = [out EXCEPT !.pc = IF NoPrs(inp.prs) THEN "NoOp" ELSE "Filtering",
                          !.done = NoPrs(inp.prs)]
    /\ lastPrs' = inp.prs
    /\ ret' = IF NoPrs(inp.prs) /\ inp.mode = "populate" THEN "False" ELSE ret
    /\ UNCHANGED <<file_exists, content, orig, lastOp, writes, merged, updated_env,
                   exit_code, inp>>

\* parse_changelog() and the test against the existing ids: int(pr_number)
\* raises on a text that is no number; a known number ends a merge event, and
\* an empty list of new records ends populate_changelog
FilterDone ==
    /\ out.pc = "Filtering"
    /\ \E p \in {parse_changelog(file_exists, content)} :
       \E new_prs \in {FilterNew(inp.prs, p.pr_numbers)} :
       \E pc \in {IF inp.mode = "single"
                  THEN IF ~IsDigits(inp.pr_number) THEN "Failed"
                       ELSE IF AlreadyInChangelog(inp.pr_number, p.pr_numbers)
                       THEN "NoOp"
                       ELSE "Classifying"
                  ELSE IF inp.mode = "populate" /\ NoPrs(new_prs) THEN "NoOp"
                  ELSE "Classifying"} :
           /\ out' = StepState(pc, new_prs, <<>>, <<>>, <<>>)
           /\ ret' = IF pc = "NoOp" THEN "False" ELSE ret
    /\ UNCHANGED <<file_exists, content, orig, lastOp, lastPrs, writes, merged,
                   updated_env, exit_code, inp>>

\* categorize_change of the record, or of every new record
ClassifyDone ==
    /\ out.pc = "Classifying"
    /\ out' = [out EXCEPT
                 !.pc = "Rendering",
                 !.categories =
                     IF inp.mode = "single"
                     THEN <<categorize_change(inp.shape.title, inp.shape.body,
                                              inp.shape.labels)>>
                     ELSE <<>> \o [i \in 1..Len(out.new_prs) |->
                                      CategoryOf(out.new_prs[i])]]
    /\ UNCHANGED <<file_exists, content, orig, lastOp, lastPrs, ret, writes, merged,
                   updated_env, exit_code, inp>>

\* extract_changelog_entry of the record, or of every new record
RenderDone ==
    /\ out.pc = "Rendering"
    /\ out' = [out EXCEPT
                 !.pc = "Merging",
                 !.entries =
                     IF inp.mode = "single"
                     THEN <<extract_changelog_entry(
                                inp.shape.title, inp.shape.body, inp.pr_number,
                                UrlStr[ToInt(inp.pr_number)])>>
                     ELSE <<>> \o [i \in 1..Len(out.new_prs) |->
                                      EntryOf(out.new_prs[i])]]
    /\ UNCHANGED <<file_exists, content, orig, lastOp, lastPrs, ret, writes, merged,
                   updated_env, exit_code, inp>>

\* new_content is put together from the document and the rendered region
MergeDone ==
    /\ out.pc = "Merging"
    /\ out' = [out EXCEPT !.pc = "Writing",
                          !.new_content = NewContentOf(inp, file_exists, content)]
    /\ UNCHANGED <<file_exists, content, orig, lastOp, lastPrs, ret, writes, merged,
                   updated_env, exit_code, inp>>

\* CHANGELOG_PATH.write_text(new_content, encoding="utf-8") and the return
Persist ==
    /\ out.pc = "Writing"
    /\ out' = [out EXCEPT !.pc = "Persisted", !.done = TRUE]
    /\ file_exists' = TRUE
    /\ content' = write_text(content, out.new_content)
    /\ writes' = writes + 1
    /\ ret' = IF inp.mode = "history" THEN "None" ELSE "True"
    /\ merged' = IF inp.mode = "single" THEN merged \cup {ToInt(inp.pr_number)}
                 ELSE merged \cup Numbers(out.new_prs)
    /\ UNCHANGED <<orig, lastOp, lastPrs, updated_env, exit_code, inp>>

\* the run ends before its write: an exception no handler catches, or the end
\* of the process
Stop ==
    /\ out.pc \in Working
    /\ out' = [out EXCEPT !.pc = "Failed", !.done = TRUE]
    /\ exit_code' = 1
    /\ UNCHANGED <<file_exists, content, orig, lastOp, lastPrs, ret, writes, merged,
                   updated_env, inp>>

NextSteps ==
    \/ StartRun
    \/ FetchDone
    \/ FilterDone
    \/ ClassifyDone
    \/ RenderDone
    \/ MergeDone
    \/ Persist
    \/ Stop

SpecSteps == InitSteps /\ [][NextSteps]_vars

\* the number of records a run classifies and renders
ToRender == IF inp.mode = "single" THEN 1 ELSE Len(out.new_prs)

\* C21: a run writes the document at most once, as a replacement of the whole
\* content by the content it put together, and only after the fetch, the
\* filter, the classification and the rendering are done; until then, and in a
\* run that ends without new records or that stops early, nothing is written
\* and the document is as it was.
C21_AllOrNothing ==
    /\ [](/\ writes <= 1
          /\ out.pc # "Persisted" => (writes = 0 /\ content = orig))
    /\ [][(content' # content \/ file_exists' # file_exists \/ writes' # writes)
             => /\ out.pc = "Writing"
                /\ out'.pc = "Persisted"
                /\ Len(out.categories) = ToRender
                /\ Len(out.entries) = ToRender
                /\ writes' = 1
                /\ file_exists'
                /\ content' = out.new_content]_vars

\* a populate run replaced a document that held text by another one
C21_Witness ==
    /\ out.pc = "Persisted"
    /\ inp.mode = "populate"
    /\ writes = 1
    /\ orig # <<>>
    /\ content # orig
    /\ content = out.new_content

(***************************************************************************)
(* Runs on records and documents whose text holds the text of the marker.  *)
(***************************************************************************)
\* a merged change whose title names the marker
MentionShape == [title |-> <<"See ", UNRELEASED>>, body |-> <<>>, labels |-> <<>>]

MentionRecords == { Record(n, sh) : n \in Ids, sh \in {WipShape, MentionShape} }

MentionLists == {l \in ListsOf(MentionRecords, MaxFetch) : UniqueIds(l)}

\* a document without the heading whose introduction names the marker
MentionDoc == <<TITLE, NL, NL, "see ", UNRELEASED, " below", NL>>

InitMarker ==
    /\ \/ Idle(FALSE, <<>>)
       \/ \E doc \in InitDocs \cup {MentionDoc} : Idle(TRUE, doc)
    /\ inp = NoCall
    /\ out = NoCall

\* one merge event
MarkerSinglePr ==
    \E r \in MentionRecords :
        \E res \in {update_changelog_single_pr(file_exists, content, ToStr(r.number),
                                               r.title, r.body, r.html_url, r.labels)} :
            /\ file_exists' = res.file_exists
            /\ content' = res.content
            /\ ret' = res.ret
            /\ writes' = res.writes
            /\ lastOp' = "single"
            /\ lastPrs' = <<r>>
            /\ merged' = IF res.writes > 0 THEN merged \cup {r.number} ELSE merged
            /\ updated_env' = (res.ret = "True")
            /\ exit_code' = 0
            /\ UNCHANGED <<orig, inp, out>>

\* IS_HISTORICAL: build_full_changelog_from_history
MarkerBuildFull ==
    \E prs \in MentionLists :
        \E res \in {build_full_changelog_from_history(file_exists, content, prs)} :
            /\ file_exists' = res.file_exists
            /\ content' = res.content
            /\ ret' = res.ret
            /\ writes' = res.writes
            /\ lastOp' = "history"
            /\ lastPrs' = prs
            /\ merged' = IF res.writes > 0 THEN merged \cup Numbers(res.new_prs)
                         ELSE merged
            /\ updated_env' = TRUE
            /\ exit_code' = 0
            /\ UNCHANGED <<orig, inp, out>>

\* populate_changelog.py: populate_changelog
MarkerPopulate ==
    \E prs \in MentionLists :
        \E res \in {populate_changelog(file_exists, content, prs)} :
            /\ file_exists' = res.file_exists
            /\ content' = res.content
            /\ ret' = res.ret
            /\ writes' = res.writes
            /\ lastOp' = "populate"
            /\ lastPrs' = prs
            /\ merged' = IF res.writes > 0 THEN merged \cup Numbers(res.new_prs)
                         ELSE merged
            /\ updated_env' = FALSE
            /\ exit_code' = PopulateExit(res.ret)
            /\ UNCHANGED <<orig, inp, out>>

NextMarker == MarkerSinglePr \/ MarkerBuildFull \/ MarkerPopulate

SpecMarker == InitMarker /\ [][NextMarker]_vars

\* the places of a text that hold the text of the marker
MarkerPlaces(text) == {k \in 1..Len(text) : text[k] = UNRELEASED}

\* the place starts a line
StartsLine(text, k) == k = 1 \/ text[k - 1] = NL

\* the text holds the marker once: its text occurs once, as the start of a line
OneMarker(text) ==
    /\ Cardinality(MarkerPlaces(text)) = 1
    /\ \A k \in MarkerPlaces(text) : StartsLine(text, k)

\* C22: from a document that holds the marker at most once, a run that wrote
\* leaves a document that holds the marker exactly once, and a run that did
\* not write leaves the document as it was, so after any sequence of runs of
\* which one wrote the document holds the marker exactly once.
C22_SingleMarker ==
    [][Cardinality(MarkerPlaces(content)) <= 1
          => /\ writes' = 1 => OneMarker(content')
             /\ writes' = 0 => content' = content]_vars

=============================================================================
